---- MODULE Spec2Model ----
(***************************************************************************)
(* The recording session controller of rust_version/src/recorder.rs:       *)
(* struct Recorder (child, start_time, paused_duration, last_pause_time),  *)
(* its operations start / stop / pause / resume / get_duration, the        *)
(* polling wait_timeout used by stop, and the spawned encoder process as   *)
(* the operating system lets it behave.                                    *)
(*                                                                         *)
(* Time is the monotonic clock of std::time::Instant in milliseconds.  It  *)
(* is observed at the granularity of the polling interval of wait_timeout. *)
(* Option<T> is the empty sequence (None) or a one-element sequence        *)
(* (Some(v)).                                                              *)
(***************************************************************************)
EXTENDS Integers, Sequences, FiniteSets

VARIABLES
    platform,         \* cfg(target_os): "windows" or "unix" (not windows)
    child,            \* Recorder.child: Option<Child>, the pid of the child
    start_time,       \* Recorder.start_time: Option<Instant>
    paused_duration,  \* Recorder.paused_duration: Duration
    last_pause_time,  \* Recorder.last_pause_time: Option<Instant>
    now,              \* the monotonic clock
    procs,            \* pid -> the encoder process as the OS sees it
    pc,               \* "ready", or "waiting" inside stop()'s wait_timeout
    taken,            \* stop(): the handle moved out by self.child.take()
    wait_start,       \* wait_timeout(): let start = Instant::now()
    wait_result,      \* what the wait_timeout of the last stop() returned
    sent,             \* signals / stdin bytes issued by the current call
    lastOp,           \* the operation of the step just taken
    result,           \* its return value
    config,           \* the RecordingConfig the caller passes to start
    cmd,              \* the Command built by the last start that got that far
    paused_clock,     \* history: clock time this session has spent Paused
    cycles            \* history: completed pause/resume cycles of this session

vars == <<platform, child, start_time, paused_duration, last_pause_time, now,
          procs, pc, taken, wait_start, wait_result, sent, lastOp, result,
          config, cmd, paused_clock, cycles>>

invocation == <<config, cmd>>

\* The history variables record what happened to the session; no operation
\* reads them.  They are reset where a session begins and where it ends.
history == <<paused_clock, cycles>>

recorder == <<child, start_time, paused_duration, last_pause_time>>

\* ------------------------------------------------------------------ bounds
MaxSpawns == 2      \* encoder processes spawned in one run
MaxTicks == 4       \* clock advances outside stop(), in polling intervals
MaxOversleep == 1   \* extra polling intervals a thread::sleep may take
MaxCycles == 2      \* the history variable cycles counts up to this and stays

\* --------------------------------------------------------------- constants
GracePeriod == 5000   \* Duration::from_secs(5), in ms
PollInterval == 50    \* Duration::from_millis(50), in ms

\* ------------------------------------------------------------------ Option
None == <<>>
Some(v) == <<v>>
IsSome(o) == o # <<>>
Unwrap(o) == o[1]

\* -------------------------------------------------------- returned values
Ok == "Ok"
AlreadyActive == "Already recording"
NotActive == "Not recording"
AlreadyPaused == "Already paused"
NotPaused == "Not paused"
SpawnFailed == "Failed to start ffmpeg"
PauseUnsupported == "Pause not supported on Windows"
ResumeUnsupported == "Resume not supported on Windows"

Pids == 1..MaxSpawns

\* Duration::saturating_sub, and Instant::duration_since (which saturates too)
saturating_sub(a, b) == IF a >= b THEN a - b ELSE 0
duration_since(later, earlier) == saturating_sub(later, earlier)
\* Instant::elapsed
elapsed(t) == duration_since(now, t)

\* ----------------------------------------------------------------- queries
is_recording == IsSome(child)

is_paused == IsSome(last_pause_time)

\* mutant: the pause timestamp is ignored while paused
get_duration_ignores_pause ==
    IF IsSome(start_time)
    THEN saturating_sub(elapsed(Unwrap(start_time)), paused_duration)
    ELSE 0

get_duration ==
    IF IsSome(start_time)
    THEN LET start == Unwrap(start_time)
             current_duration ==
                 IF IsSome(last_pause_time)
                 THEN duration_since(Unwrap(last_pause_time), start)
                 ELSE elapsed(start)
         IN saturating_sub(current_duration, paused_duration)
    ELSE 0

\* ------------------------------------------------------ the child process
\* st: "unborn" (pid not used yet), "running", "stopped" (suspended by
\* SIGSTOP), "zombie" (exited, not waited on), "reaped" (waited on).
\* term: a graceful-stop request (SIGTERM, or 'q' on stdin) has been
\* delivered and not yet acted upon.
\* lost: the process was reaped outside the handle, so that waitpid and
\* kill on the handle fail (ECHILD / ESRCH).
Alive(p) == procs[p].st \in {"running", "stopped"}

FreePids == {p \in Pids : procs[p].st = "unborn"}

\* The effect on process p of signal sig; ok = FALSE when the `kill`
\* utility could not be run or the write failed.
Deliver(ps, p, sig, ok) ==
    IF ~ok \/ ps[p].st \notin {"running", "stopped"} THEN ps
    ELSE CASE sig = "SIGSTOP" -> [ps EXCEPT ![p].st = "stopped"]
           [] sig = "SIGCONT" -> [ps EXCEPT ![p].st = "running"]
           [] sig = "SIGTERM" -> [ps EXCEPT ![p].term = TRUE]
           [] sig = "q"       -> [ps EXCEPT ![p].term = TRUE]
           [] sig = "SIGKILL" -> [ps EXCEPT ![p].st = "zombie"]
           [] OTHER -> ps

Signal(sig, p, ok) == [sig |-> sig, pid |-> p, ok |-> ok]


\* ---------------------------------------------------------- RecordingConfig
\* The configurations the command builder is explored with.
Configs ==
    [ output_path : {"out.mp4", "rec.webm", "-y"},
      width : {640, 1280},
      height : {480, 720},
      x : {-5, 0, 100},
      y : {0, 50},
      mode : {"Screen", "Camera", "PiP"},
      camera_device : {"/dev/video0", "-i"},
      audio_enabled : BOOLEAN,
      audio_device : {"default", "hw:0,0", "-y"},
      container_format : {"mp4", "webm", "", "WEBM"},
      ffmpeg_path : {"ffmpeg", "./ffmpeg", "ffmpeg.exe"} ]

\* The form of ScreenRecorderApp::new, as the Record button passes it on.
DefaultConfig ==
    [ output_path |-> "recording.mp4", width |-> 1920, height |-> 1080,
      x |-> 0, y |-> 0, mode |-> "Screen", camera_device |-> "",
      audio_enabled |-> FALSE, audio_device |-> "default",
      container_format |-> "mp4", ffmpeg_path |-> "ffmpeg" ]

\* ------------------------------------------------------------- to_string
Digit(d) ==
    CASE d = 0 -> "0" [] d = 1 -> "1" [] d = 2 -> "2" [] d = 3 -> "3"
      [] d = 4 -> "4" [] d = 5 -> "5" [] d = 6 -> "6" [] d = 7 -> "7"
      [] d = 8 -> "8" [] d = 9 -> "9"

RECURSIVE NatToString(_)
NatToString(n) ==
    IF n < 10 THEN Digit(n) ELSE NatToString(n \div 10) \o Digit(n % 10)

\* i32 / u32 Display, as used by to_string() and format!("{}")
to_string(n) == IF n < 0 THEN "-" \o NatToString(0 - n) ELSE NatToString(n)

\* mutant: height and width are exchanged
video_size_swapped(c) == to_string(c.height) \o "x" \o to_string(c.width)

\* format!("{}x{}", config.width, config.height)
video_size(c) == to_string(c.width) \o "x" \o to_string(c.height)

\* ---------------------------------------------------------- command line
\* Input 1: desktop / primary video source
primary_input(c) ==
    IF c.mode \in {"Screen", "PiP"}
    THEN IF platform = "windows"
         THEN <<"-f", "gdigrab", "-framerate", "30",
                "-offset_x", to_string(c.x), "-offset_y", to_string(c.y),
                "-video_size", video_size(c), "-i", "desktop">>
         ELSE <<"-f", "x11grab", "-video_size", video_size(c),
                "-framerate", "30",
                "-i", ":0.0+" \o to_string(c.x) \o "," \o to_string(c.y)>>
    ELSE IF platform = "windows"
         THEN <<"-f", "dshow", "-i", "video=" \o c.camera_device>>
         ELSE <<"-f", "v4l2", "-framerate", "30", "-video_size", "640x480",
                "-i", c.camera_device>>

\* Input 2: camera (only for PiP)
pip_input(c) ==
    IF c.mode = "PiP"
    THEN IF platform = "windows"
         THEN <<"-f", "dshow", "-video_size", "320x240",
                "-i", "video=" \o c.camera_device>>
         ELSE <<"-f", "v4l2", "-framerate", "30", "-video_size", "320x240",
                "-i", c.camera_device>>
    ELSE <<>>

\* Input 3 (or 2): audio
audio_input(c) ==
    IF c.audio_enabled
    THEN (IF platform = "windows"
          THEN <<"-f", "dshow", "-i", "audio=" \o c.audio_device>>
          ELSE <<"-f", "alsa", "-i", c.audio_device>>)
         \o <<"-ac", "2">>
    ELSE <<>>

\* Filter complex (for PiP)
filter_complex(c) ==
    IF c.mode = "PiP"
    THEN <<"-filter_complex", "[0:v][1:v] overlay=main_w-overlay_w-10:10">>
    ELSE <<>>

\* mutant: the container format is compared without regard to case
encoding_any_case(c) ==
    IF c.container_format \in {"webm", "WEBM"}
    THEN <<"-c:v", "libvpx-vp9", "-b:v", "2M">>
    ELSE <<"-c:v", "libx264", "-preset", "ultrafast", "-crf", "23",
           "-pix_fmt", "yuv420p">>

\* Encoding options
encoding(c) ==
    IF c.container_format = "webm"
    THEN <<"-c:v", "libvpx-vp9", "-b:v", "2M">>
    ELSE <<"-c:v", "libx264", "-preset", "ultrafast", "-crf", "23",
           "-pix_fmt", "yuv420p">>

\* mutant: the destination comes before the overwrite flag
output_path_first(c) == <<c.output_path, "-y">>

\* Overwrite output
output(c) == <<"-y", c.output_path>>

\* let mut cmd = Command::new("ffmpeg")
program(c) == "ffmpeg"

\* mutant: the filter is appended right after the video inputs
build_args_filter_early(c) ==
    primary_input(c) \o pip_input(c) \o filter_complex(c) \o audio_input(c)
        \o encoding(c) \o output(c)

\* the arguments in the order start appends them
build_args(c) ==
    primary_input(c) \o pip_input(c) \o audio_input(c) \o filter_complex(c)
        \o encoding(c) \o output(c)

build_command(c) == [program |-> program(c), args |-> build_args(c)]

\* -------------------------------------------------------------------- Init
Init ==
    /\ platform \in {"unix", "windows"}
    /\ child = None
    /\ start_time = None
    /\ paused_duration = 0
    /\ last_pause_time = None
    /\ now = 0
    /\ procs = [p \in Pids |-> [st |-> "unborn", term |-> FALSE, lost |-> FALSE]]
    /\ pc = "ready"
    /\ taken = None
    /\ wait_start = 0
    /\ wait_result = "none"
    /\ sent = <<>>
    /\ lastOp = "new"
    /\ result = Ok
    /\ paused_clock = 0
    /\ cycles = 0
    /\ config = DefaultConfig
    /\ cmd = None

\* ------------------------------------------------------------------- start
\* mutant: a successful start leaves the accumulated paused duration alone
start_spawned_stale(p) ==
    /\ procs' = [procs EXCEPT ![p] = [st |-> "running", term |-> FALSE, lost |-> FALSE]]
    /\ child' = Some(p)
    /\ start_time' = Some(now)
    /\ last_pause_time' = None
    /\ result' = Ok
    /\ UNCHANGED paused_duration

\* cmd.spawn() succeeded: the new process runs; the four fields are set.
start_spawned(p) ==
    /\ procs' = [procs EXCEPT ![p] = [st |-> "running", term |-> FALSE, lost |-> FALSE]]
    /\ child' = Some(p)
    /\ start_time' = Some(now)
    /\ paused_duration' = 0
    /\ last_pause_time' = None
    /\ result' = Ok

\* mutant: the session fields are assigned before the spawn is known to work
start_spawn_failed_dirty ==
    /\ result' = SpawnFailed
    /\ start_time' = Some(now)
    /\ paused_duration' = 0
    /\ UNCHANGED <<child, last_pause_time, procs>>

\* cmd.spawn() failed: `?` returns the error before any assignment.
start_spawn_failed ==
    /\ result' = SpawnFailed
    /\ UNCHANGED <<recorder, procs>>

\* mutant: the guard of start is missing
start_refused_never == FALSE

\* if self.child.is_some() { return Err("Already recording") }
start_refused == IsSome(child)

\* mutant: a refused start restarts the session clock
start_already_restarts ==
    /\ result' = AlreadyActive
    /\ start_time' = Some(now)
    /\ paused_duration' = 0
    /\ UNCHANGED <<child, last_pause_time, procs>>

start_already ==
    /\ result' = AlreadyActive
    /\ UNCHANGED <<recorder, procs>>

start ==
    /\ pc = "ready"
    /\ lastOp' = "start"
    /\ sent' = <<>>
    /\ IF start_refused
       THEN start_already
       ELSE \/ \E p \in FreePids :
                 /\ \A q \in FreePids : p <= q
                 /\ start_spawned(p)
            \/ start_spawn_failed
    /\ cmd' = (IF start_refused THEN cmd ELSE Some(build_command(config)))
    /\ paused_clock' = (IF result' = Ok THEN 0 ELSE paused_clock)
    /\ cycles' = (IF result' = Ok THEN 0 ELSE cycles)
    /\ UNCHANGED <<platform, now, pc, taken, wait_start, wait_result, config>>

\* -------------------------------------------------------------------- stop
\* mutant: SIGTERM is used on every platform
graceful_request_sigterm(p, ok) == Signal("SIGTERM", p, ok)

\* The graceful-shutdown request: 'q' on the child's stdin on windows,
\* `kill -SIGTERM <pid>` elsewhere.  Errors are dropped (let _ =).
graceful_request(p, ok) ==
    IF platform = "windows" THEN Signal("q", p, ok) ELSE Signal("SIGTERM", p, ok)

\* mutant: stop forgets the pause timestamp
stop_clear_keeps_pause ==
    /\ start_time' = None
    /\ UNCHANGED <<child, paused_duration, last_pause_time>>

\* mutant: stop forgets the start timestamp
stop_clear_keeps_start ==
    /\ last_pause_time' = None
    /\ UNCHANGED <<child, paused_duration, start_time>>

\* self.start_time = None; self.last_pause_time = None; return Ok(())
stop_clear ==
    /\ start_time' = None
    /\ last_pause_time' = None
    /\ UNCHANGED <<child, paused_duration>>

stop_return ==
    /\ stop_clear
    /\ taken' = None
    /\ pc' = "ready"
    /\ result' = Ok

\* stop() up to the first poll of wait_timeout: the handle is taken out of
\* the record, the graceful request is issued, the deadline clock starts.
stop_begin ==
    /\ pc = "ready"
    /\ lastOp' = "stop"
    /\ IF IsSome(child)
       THEN \E ok \in BOOLEAN :
              LET p == Unwrap(child)
                  g == graceful_request(p, ok)
              IN /\ taken' = child
                 /\ child' = None
                 /\ sent' = <<g>>
                 /\ procs' = Deliver(procs, p, g.sig, ok)
                 /\ wait_start' = now
                 /\ wait_result' = "none"
                 /\ pc' = "waiting"
                 /\ result' = "pending"
                 /\ paused_clock' = 0
                 /\ cycles' = 0
                 /\ UNCHANGED <<start_time, paused_duration, last_pause_time>>
       ELSE /\ result' = NotActive
            /\ sent' = <<>>
            /\ UNCHANGED <<recorder, procs, taken, wait_start, wait_result, pc, history>>
    /\ UNCHANGED <<platform, now, invocation>>

\* mutant: an exited child is reported as still running
try_wait_blind(p) ==
    IF procs[p].lost THEN "Err" ELSE "Running"

\* Child::try_wait on the taken handle
try_wait(p) ==
    IF procs[p].lost THEN "Err"
    ELSE IF procs[p].st = "zombie" THEN "Exited"
    ELSE "Running"

\* mutant: the deadline is compared in the unit of the polling interval
deadline_passed_early == elapsed(wait_start) >= PollInterval

\* mutant: the reference instant is taken anew in every iteration
deadline_passed_restarted == elapsed(now) >= GracePeriod

\* wait_timeout: the deadline test after a poll that found the child running
deadline_passed == elapsed(wait_start) >= GracePeriod

\* let _ = child.kill(); let _ = child.wait();
kill_and_reap(p) ==
    IF procs[p].lost
    THEN /\ procs' = procs
         /\ sent' = Append(sent, Signal("SIGKILL", p, FALSE))
    ELSE /\ procs' = [procs EXCEPT ![p].st = "reaped"]
         /\ sent' = Append(sent, Signal("SIGKILL", p, TRUE))

\* An Instant is opaque: only differences of Instants are observable.  When
\* stop() returns the record holds no Instant any more, so the origin of the
\* clock is moved to the present; every session is then explored with the
\* same clock readings, whatever the time the stops before it took.
clock_rebased == now' = 0

\* One iteration of the loop of wait_timeout, and, when the loop ends, the
\* rest of stop().
stop_poll ==
    /\ pc = "waiting"
    /\ lastOp' = "stop"
    /\ LET p == Unwrap(taken)
           r == try_wait(p)
       IN CASE r = "Exited" ->
                 /\ wait_result' = "exited"
                 /\ procs' = [procs EXCEPT ![p].st = "reaped"]
                 /\ stop_return
                 /\ clock_rebased
                 /\ UNCHANGED sent
            [] r = "Err" ->
                 /\ wait_result' = "error"
                 /\ kill_and_reap(p)
                 /\ stop_return
                 /\ clock_rebased
            [] r = "Running" /\ deadline_passed ->
                 /\ wait_result' = "timeout"
                 /\ kill_and_reap(p)
                 /\ stop_return
                 /\ clock_rebased
            [] r = "Running" /\ ~deadline_passed ->
                 /\ \E k \in 0..MaxOversleep : now' = now + PollInterval * (1 + k)
                 /\ result' = "pending"
                 /\ UNCHANGED <<recorder, procs, pc, taken, wait_result, sent>>
    /\ UNCHANGED <<platform, wait_start, history, invocation>>

\* ------------------------------------------------------------------- pause
\* mutant: the windows early return is missing
pause_supported_everywhere == TRUE

\* cfg(not(target_os = "windows")): the pause / resume bodies are compiled in
pause_supported == platform # "windows"

\* a call that fails: no signal, no assignment
refused(err) ==
    /\ result' = err
    /\ sent' = <<>>
    /\ UNCHANGED <<recorder, procs>>

\* mutant: pause folds time into the accumulated paused duration
pause_recording_folds(ok) ==
    /\ sent' = <<Signal("SIGSTOP", Unwrap(child), ok)>>
    /\ procs' = Deliver(procs, Unwrap(child), "SIGSTOP", ok)
    /\ last_pause_time' = Some(now)
    /\ paused_duration' = paused_duration + elapsed(Unwrap(start_time))
    /\ result' = Ok
    /\ UNCHANGED <<child, start_time>>

\* kill -SIGSTOP <pid>; self.last_pause_time = Some(Instant::now()); Ok(())
pause_recording(ok) ==
    /\ sent' = <<Signal("SIGSTOP", Unwrap(child), ok)>>
    /\ procs' = Deliver(procs, Unwrap(child), "SIGSTOP", ok)
    /\ last_pause_time' = Some(now)
    /\ result' = Ok
    /\ UNCHANGED <<child, start_time, paused_duration>>

\* mutant: the test for an open pause is missing
pause_refused_never == FALSE

\* if self.last_pause_time.is_some() { return Err("Already paused") }
pause_refused == IsSome(last_pause_time)

pause ==
    /\ pc = "ready"
    /\ lastOp' = "pause"
    /\ IF ~pause_supported THEN refused(PauseUnsupported)
       ELSE IF IsSome(child)
            THEN IF pause_refused
                 THEN refused(AlreadyPaused)
                 ELSE \E ok \in BOOLEAN : pause_recording(ok)
            ELSE refused(NotActive)
    /\ UNCHANGED <<platform, now, pc, taken, wait_start, wait_result, history,
                   invocation>>

\* ------------------------------------------------------------------ resume
\* mutant: resume overwrites the accumulated paused duration
resume_paused_overwrites(ok) ==
    /\ sent' = <<Signal("SIGCONT", Unwrap(child), ok)>>
    /\ procs' = Deliver(procs, Unwrap(child), "SIGCONT", ok)
    /\ paused_duration' = elapsed(Unwrap(last_pause_time))
    /\ last_pause_time' = None
    /\ result' = Ok
    /\ UNCHANGED <<child, start_time>>

\* mutant: resume does not fold the pause interval in
resume_paused_forgets(ok) ==
    /\ sent' = <<Signal("SIGCONT", Unwrap(child), ok)>>
    /\ procs' = Deliver(procs, Unwrap(child), "SIGCONT", ok)
    /\ last_pause_time' = None
    /\ result' = Ok
    /\ UNCHANGED <<child, start_time, paused_duration>>

\* mutant: resume folds the pause interval in twice
resume_paused_twice(ok) ==
    /\ sent' = <<Signal("SIGCONT", Unwrap(child), ok)>>
    /\ procs' = Deliver(procs, Unwrap(child), "SIGCONT", ok)
    /\ paused_duration' = paused_duration + 2 * elapsed(Unwrap(last_pause_time))
    /\ last_pause_time' = None
    /\ result' = Ok
    /\ UNCHANGED <<child, start_time>>

\* kill -SIGCONT <pid>; self.paused_duration += pause_time.elapsed();
\* self.last_pause_time = None; Ok(())
resume_paused(ok) ==
    /\ sent' = <<Signal("SIGCONT", Unwrap(child), ok)>>
    /\ procs' = Deliver(procs, Unwrap(child), "SIGCONT", ok)
    /\ paused_duration' = paused_duration + elapsed(Unwrap(last_pause_time))
    /\ last_pause_time' = None
    /\ result' = Ok
    /\ UNCHANGED <<child, start_time>>

resume ==
    /\ pc = "ready"
    /\ lastOp' = "resume"
    /\ IF ~pause_supported THEN refused(ResumeUnsupported)
       ELSE IF IsSome(child)
            THEN IF IsSome(last_pause_time)
                 THEN \E ok \in BOOLEAN : resume_paused(ok)
                 ELSE refused(NotPaused)
            ELSE refused(NotActive)
    /\ cycles' = (IF result' = Ok /\ cycles < MaxCycles THEN cycles + 1 ELSE cycles)
    /\ UNCHANGED <<platform, now, pc, taken, wait_start, wait_result, paused_clock,
                   invocation>>

\* ------------------------------------------------------------- environment
\* A step of the environment is no call: it has no return value, and the
\* signals of a call that has returned are forgotten.
env_step ==
    /\ lastOp' = "env"
    /\ result' = IF pc = "waiting" THEN "pending" ELSE "none"
    /\ sent' = IF pc = "waiting" THEN sent ELSE <<>>
    /\ UNCHANGED <<platform, recorder, pc, taken, wait_start, wait_result,
                   invocation>>

\* The clock advances between two calls of the caller's event loop.
Tick ==
    /\ pc = "ready"
    /\ now < MaxTicks * PollInterval
    /\ now' = now + PollInterval
    /\ env_step
    /\ paused_clock' = (IF is_recording /\ is_paused
                        THEN paused_clock + (now' - now) ELSE paused_clock)
    /\ UNCHANGED <<procs, cycles>>

\* The encoder acts on a delivered graceful-stop request: it finalizes the
\* file and exits.  A suspended process does not run.
ChildFinalizes ==
    /\ \E p \in Pids :
         /\ procs[p].st = "running"
         /\ procs[p].term
         /\ procs' = [procs EXCEPT ![p].st = "zombie"]
    /\ env_step
    /\ UNCHANGED <<now, history>>

\* The encoder exits on its own (capture error, disk full, ...).
ChildExits ==
    /\ \E p \in Pids :
         /\ procs[p].st = "running"
         /\ ~procs[p].term
         /\ procs' = [procs EXCEPT ![p].st = "zombie"]
    /\ env_step
    /\ UNCHANGED <<now, history>>

\* The exited child is reaped outside the handle (SIGCHLD ignored, or a
\* foreign waitpid): from then on try_wait / kill / wait on the handle fail.
ChildReapedOutside ==
    /\ \E p \in Pids :
         /\ procs[p].st = "zombie"
         /\ procs' = [procs EXCEPT ![p].st = "reaped", ![p].lost = TRUE]
    /\ env_step
    /\ UNCHANGED <<now, history>>

Next ==
    \/ start
    \/ stop_begin
    \/ stop_poll
    \/ pause
    \/ resume
    \/ Tick
    \/ ChildFinalizes
    \/ ChildExits
    \/ ChildReapedOutside

Spec == Init /\ [][Next]_vars

\* The thread that called stop() keeps running: thread::sleep returns and
\* the loop of wait_timeout takes its next iteration.  Nothing is assumed
\* about the child.
FairSpec == Spec /\ WF_vars(stop_poll)

\* The command builder on its own: the Record button is pressed with any
\* configuration of Configs in the form, on either platform.
BuilderInit ==
    /\ platform \in {"unix", "windows"}
    /\ config \in Configs
    /\ cmd = None
    /\ child = None
    /\ start_time = None
    /\ paused_duration = 0
    /\ last_pause_time = None
    /\ now = 0
    /\ procs = [p \in Pids |-> [st |-> "unborn", term |-> FALSE, lost |-> FALSE]]
    /\ pc = "ready"
    /\ taken = None
    /\ wait_start = 0
    /\ wait_result = "none"
    /\ sent = <<>>
    /\ lastOp = "new"
    /\ result = Ok
    /\ paused_clock = 0
    /\ cycles = 0

BuilderSpec == BuilderInit /\ [][start]_vars

\* ================================================================== claims
\* A step with lastOp' = op is a step of a call of op; a step with
\* procs' # procs inside start is a successful spawn.

\* C1: start on an Idle controller whose spawn succeeds returns Ok and leaves
\* the controller Recording (is_recording, not is_paused); start while a
\* child handle is held returns AlreadyActive, creates no process and leaves
\* child, start_time, last_pause_time and paused_duration as they were.
C1_StartContract ==
    [][ lastOp' = "start" =>
          IF is_recording
          THEN /\ result' = AlreadyActive
               /\ procs' = procs
               /\ sent' = <<>>
               /\ UNCHANGED recorder
          ELSE (procs' # procs) =>
                 /\ result' = Ok
                 /\ is_recording'
                 /\ ~is_paused' ]_vars

C1_Witness ==
    /\ lastOp = "start"
    /\ result = AlreadyActive
    /\ is_paused
    /\ paused_duration > 0

\* C2: stop on an Idle controller returns NotActive and changes nothing; a
\* stop on an active controller never returns an error, and when it returns
\* it returns Ok with is_recording and is_paused both false, whether the wait
\* saw the child exit, timed out (forced kill) or failed.
C2_StopContract ==
    [][ lastOp' = "stop" =>
          IF pc = "ready" /\ ~is_recording
          THEN /\ result' = NotActive
               /\ pc' = "ready"
               /\ procs' = procs
               /\ sent' = <<>>
               /\ UNCHANGED recorder
          ELSE /\ result' \in {"pending", Ok}
               /\ (pc' = "ready") <=> (result' = Ok)
               /\ (pc' = "ready") =>
                    /\ ~is_recording'
                    /\ ~is_paused'
                    /\ wait_result' \in {"exited", "timeout", "error"} ]_vars

C2_Witness ==
    /\ lastOp = "stop"
    /\ result = Ok
    /\ wait_result = "timeout"
    /\ paused_duration > 0
    /\ ~is_recording

\* C3: a start whose spawn fails (no process is created) on an Idle
\* controller returns SpawnFailed and modifies no field of the session:
\* child, start_time and last_pause_time stay absent and paused_duration keeps
\* its value, so that the controller is still Idle and start may be called
\* again.
C3_SpawnFailure ==
    [][ (lastOp' = "start" /\ ~is_recording /\ procs' = procs) =>
          /\ result' = SpawnFailed
          /\ UNCHANGED recorder
          /\ child' = None
          /\ start_time' = None
          /\ last_pause_time' = None ]_vars

C3_Witness ==
    /\ lastOp = "start"
    /\ result = SpawnFailed
    /\ paused_duration > 0
    /\ FreePids # {}

\* C4: where pausing is supported, pause while Idle returns NotActive and
\* pause while Paused returns AlreadyPaused, both without a signal or a
\* change; pause while Recording sends SIGSTOP to the held child, sets
\* last_pause_time to the current time and leaves the controller Paused,
\* with start_time and paused_duration untouched.
C4_PauseContract ==
    [][ (lastOp' = "pause" /\ platform # "windows") =>
          IF ~is_recording \/ is_paused
          THEN /\ result' = (IF is_recording THEN AlreadyPaused ELSE NotActive)
               /\ procs' = procs
               /\ sent' = <<>>
               /\ UNCHANGED recorder
          ELSE /\ result' = Ok
               /\ Len(sent') = 1
               /\ sent'[1].sig = "SIGSTOP"
               /\ sent'[1].pid = Unwrap(child)
               /\ last_pause_time' = Some(now)
               /\ is_recording'
               /\ is_paused'
               /\ UNCHANGED <<child, start_time, paused_duration>> ]_vars

C4_Witness ==
    /\ lastOp = "pause"
    /\ result = Ok
    /\ is_paused
    /\ paused_duration > 0
    /\ now > Unwrap(start_time)

\* C5: where pausing is supported, resume while Idle returns NotActive and
\* resume while Recording returns NotPaused, both without a signal or a
\* change; resume while Paused sends SIGCONT to the held child, adds the time
\* since last_pause_time to paused_duration, clears last_pause_time and
\* leaves the controller Recording.
C5_ResumeContract ==
    [][ (lastOp' = "resume" /\ platform # "windows") =>
          IF ~is_recording \/ ~is_paused
          THEN /\ result' = (IF is_recording THEN NotPaused ELSE NotActive)
               /\ procs' = procs
               /\ sent' = <<>>
               /\ UNCHANGED recorder
          ELSE /\ result' = Ok
               /\ Len(sent') = 1
               /\ sent'[1].sig = "SIGCONT"
               /\ sent'[1].pid = Unwrap(child)
               /\ paused_duration' = paused_duration + (now - Unwrap(last_pause_time))
               /\ last_pause_time' = None
               /\ is_recording'
               /\ ~is_paused'
               /\ UNCHANGED <<child, start_time>> ]_vars

C5_Witness ==
    /\ lastOp = "resume"
    /\ result = Ok
    /\ paused_duration >= 2 * PollInterval
    /\ get_duration > 0

\* C6: on windows pause and resume return the unsupported-operation error in
\* every controller state, send nothing, change nothing, and is_paused is
\* false in every reachable state.
C6_Unsupported ==
    /\ [](platform = "windows" => ~is_paused)
    /\ [][ (platform = "windows" /\ lastOp' \in {"pause", "resume"}) =>
             /\ result' = (IF lastOp' = "pause" THEN PauseUnsupported
                                                ELSE ResumeUnsupported)
             /\ procs' = procs
             /\ sent' = <<>>
             /\ UNCHANGED recorder ]_vars

C6_Witness ==
    /\ platform = "windows"
    /\ lastOp = "pause"
    /\ result = PauseUnsupported
    /\ is_recording
    /\ get_duration > 0

\* C7: between calls, is_paused implies is_recording, and start_time is
\* present exactly when a child handle is held.
C7_PausedImpliesRecording ==
    pc = "ready" =>
        /\ is_paused => is_recording
        /\ IsSome(start_time) <=> IsSome(child)

C7_Witness ==
    /\ pc = "ready"
    /\ is_paused
    /\ is_recording
    /\ child = Some(2)

\* C8: at most one encoder process is alive at any time, and a process is
\* spawned only between calls, with no child handle held and every process
\* spawned before it exited and reaped.
C8_OneLiveChild ==
    /\ [](Cardinality({p \in Pids : Alive(p)}) <= 1)
    /\ [][ (\E p \in Pids : procs[p].st = "unborn" /\ procs'[p].st # "unborn") =>
             /\ pc = "ready"
             /\ ~is_recording
             /\ \A q \in Pids : procs[q].st \in {"unborn", "reaped"} ]_vars

C8_Witness ==
    /\ procs[1].st = "reaped"
    /\ ~procs[1].lost
    /\ Alive(2)
    /\ child = Some(2)

\* C9: between calls, whenever no child handle is held (never started, after
\* a failed start, after any stop) get_duration is zero.
C9_IdleElapsedZero ==
    (pc = "ready" /\ ~is_recording) => get_duration = 0

C9_Witness ==
    /\ pc = "ready"
    /\ ~is_recording
    /\ paused_duration > 0
    /\ now > 0

\* C10: while a child handle is held, get_duration is (last_pause_time if
\* paused, else the current time) - start_time - paused_duration, or zero if
\* that difference is negative.
C10_ElapsedFormula ==
    (pc = "ready" /\ is_recording) =>
        /\ IsSome(start_time)
        /\ LET upto == IF is_paused THEN Unwrap(last_pause_time) ELSE now
               diff == upto - Unwrap(start_time) - paused_duration
           IN get_duration = (IF diff < 0 THEN 0 ELSE diff)

C10_Witness ==
    /\ is_recording
    /\ is_paused
    /\ paused_duration > 0
    /\ get_duration > 0
    /\ now > Unwrap(last_pause_time)

\* A step inside one session: a child handle is held before and after it.
\* (start on an active controller is refused, so the handle is the same.)
\* C11: while Paused get_duration does not change, whatever the clock does;
\* a successful pause and a successful resume leave it at the value it had
\* just before the call (no jump); while Recording it advances exactly as
\* the clock does.
C11_FrozenWhilePaused ==
    [][ (pc = "ready" /\ is_recording /\ is_recording') =>
          /\ (is_paused \/ is_paused') => get_duration' = get_duration
          /\ (~is_paused /\ ~is_paused') =>
                get_duration' = get_duration + (now' - now) ]_vars

C11_Witness ==
    /\ lastOp = "env"
    /\ is_recording
    /\ ~is_paused
    /\ cycles >= 1
    /\ paused_duration > 0
    /\ get_duration >= 2 * PollInterval

\* C12: within a session the accumulated paused duration equals the clock
\* time the session has spent Paused in its completed pause/resume cycles:
\* while Recording it is the whole time spent Paused, while Paused it is
\* that time less the interval in progress.
C12_PausesAddUp ==
    (pc = "ready" /\ is_recording) =>
        paused_duration =
            paused_clock - (IF is_paused THEN now - Unwrap(last_pause_time) ELSE 0)

C12_Witness ==
    /\ lastOp = "resume"
    /\ result = Ok
    /\ cycles >= 2
    /\ paused_duration >= 2 * PollInterval
    /\ now - Unwrap(start_time) > paused_duration

\* C13: within a session paused_duration never decreases, and a step that
\* changes it is a successful resume; between sessions the only step that
\* changes it is a successful start.
C13_PausedDurationFrame ==
    [][ /\ (is_recording /\ is_recording') =>
             /\ paused_duration' >= paused_duration
             /\ (paused_duration' # paused_duration) =>
                    (lastOp' = "resume" /\ result' = Ok)
        /\ (paused_duration' # paused_duration) =>
             \/ lastOp' = "resume" /\ result' = Ok
             \/ lastOp' = "start" /\ result' = Ok ]_vars

C13_Witness ==
    /\ lastOp = "pause"
    /\ result = Ok
    /\ cycles >= 1
    /\ paused_duration >= PollInterval
    /\ paused_clock = paused_duration

\* C14: when stop has returned Ok the record equals the one Recorder::new
\* builds: child, start_time and last_pause_time absent and paused_duration
\* zero.
C14_StopClearsAll ==
    (pc = "ready" /\ lastOp = "stop" /\ result = Ok) =>
        recorder = <<None, None, 0, None>>

\* C15: in every stop of an active session the graceful request is the first
\* thing issued and is issued exactly once, to the child taken from the
\* record: 'q' on windows, SIGTERM elsewhere; the wait starts at that moment
\* and any SIGKILL comes after it.
C15_GracefulOnce ==
    /\ [](( pc = "waiting" \/ (lastOp = "stop" /\ result = Ok) ) =>
            /\ Len(sent) >= 1
            /\ sent[1].sig = (IF platform = "windows" THEN "q" ELSE "SIGTERM")
            /\ \A i \in 2..Len(sent) : sent[i].sig = "SIGKILL" /\ sent[i].pid = sent[1].pid
            /\ Len(sent) <= 2
            /\ pc = "waiting" => sent[1].pid = Unwrap(taken))
    /\ [][ (pc = "ready" /\ pc' = "waiting") =>
             /\ Len(sent') = 1
             /\ sent'[1].pid = Unwrap(child)
             /\ wait_start' = now ]_vars

C15_Witness ==
    /\ platform = "windows"
    /\ lastOp = "stop"
    /\ result = Ok
    /\ Len(sent) = 2
    /\ sent[1].ok

\* C16: the step in which stop leaves its wait issues SIGKILL only if the
\* wait failed or the poll, taken GracePeriod or more after the wait began,
\* found the child not exited; a poll that finds the child exited returns at
\* once without a kill, at any time; after a timeout the child has been
\* killed and reaped when stop returns.  No other step of stop kills.
C16_KillOnlyAfterDeadline ==
    [][ pc = "waiting" =>
          LET p == Unwrap(taken)
              killed == Len(sent') > Len(sent)
          IN /\ killed =>
                  /\ sent'[Len(sent')].sig = "SIGKILL"
                  /\ pc' = "ready"
                  /\ \/ procs[p].lost /\ wait_result' = "error"
                     \/ /\ Alive(p)
                        /\ now - wait_start >= GracePeriod
                        /\ wait_result' = "timeout"
             /\ (procs[p].st = "zombie" /\ ~procs[p].lost /\ lastOp' = "stop") =>
                  /\ ~killed
                  /\ pc' = "ready"
                  /\ wait_result' = "exited"
                  /\ procs'[p].st = "reaped"
             /\ (pc' = "ready" /\ wait_result' = "timeout") =>
                  /\ sent'[Len(sent')] = Signal("SIGKILL", p, TRUE)
                  /\ procs'[p].st = "reaped" ]_vars

C16_Witness ==
    /\ platform = "unix"
    /\ lastOp = "stop"
    /\ result = Ok
    /\ wait_result = "timeout"
    /\ sent[1].ok
    /\ Len(sent) = 2

\* C17: under FairSpec every stop of an active session returns, with Ok and
\* with no encoder process left alive, and its wait never lasts longer than
\* GracePeriod plus one sleep of the polling loop.
C17_StopTerminates ==
    /\ [](pc = "waiting" =>
            now - wait_start < GracePeriod + (MaxOversleep + 1) * PollInterval)
    /\ (pc = "waiting") ~>
          (pc = "ready" /\ lastOp = "stop" /\ result = Ok /\ \A p \in Pids : ~Alive(p))

C17_Witness ==
    /\ pc = "waiting"
    /\ procs[Unwrap(taken)].st = "stopped"
    /\ procs[Unwrap(taken)].term
    /\ deadline_passed

\* ------------------------------------------- reading a command line back
\* The claims about the rendered arguments read them the way the encoder
\* does: left to right, every option taking the next argument as its value
\* (-y takes none), anything else being an output file.
RECURSIVE ParseArgs(_, _)
ParseArgs(a, i) ==
    IF i > Len(a) THEN <<>>
    ELSE IF a[i] = "-y"
         THEN <<[flag |-> "-y", value |-> ""]>> \o ParseArgs(a, i + 1)
    ELSE IF Len(a[i]) > 0 /\ SubSeq(a[i], 1, 1) = "-" /\ i < Len(a)
         THEN <<[flag |-> a[i], value |-> a[i + 1]]>> \o ParseArgs(a, i + 2)
    ELSE <<[flag |-> "", value |-> a[i]]>> \o ParseArgs(a, i + 1)

Rendered == ParseArgs(Unwrap(cmd).args, 1)

\* positions of the inputs of the parsed options o, in order; the k-th is
\* input k-1 of the encoder
InputAt(o) == {j \in DOMAIN o : o[j].flag = "-i"}
\* the options that belong to the input at j
OptionsOf(o, j) ==
    LET before == {i \in InputAt(o) : i < j}
    IN {k \in DOMAIN o : k < j /\ \A i \in before : i < k}
OptionOf(o, j, flag) == {o[k].value : k \in {k \in OptionsOf(o, j) : o[k].flag = flag}}
NthInput(o, n) ==
    LET at == InputAt(o)
    IN CHOOSE j \in at : Cardinality({i \in at : i < j}) = n

StartsWith(str, pre) == Len(str) >= Len(pre) /\ SubSeq(str, 1, Len(pre)) = pre
Contains(str, sub) ==
    \E i \in 1..(Len(str) - Len(sub) + 1) : SubSeq(str, i, i + Len(sub) - 1) = sub
Find(str, ch) ==
    IF Contains(str, ch)
    THEN CHOOSE i \in 1..Len(str) :
            /\ SubSeq(str, i, i) = ch
            /\ \A k \in 1..(i - 1) : SubSeq(str, k, k) # ch
    ELSE 0

DigitChars == {"0", "1", "2", "3", "4", "5", "6", "7", "8", "9"}
DigitValue(ch) ==
    CASE ch = "0" -> 0 [] ch = "1" -> 1 [] ch = "2" -> 2 [] ch = "3" -> 3
      [] ch = "4" -> 4 [] ch = "5" -> 5 [] ch = "6" -> 6 [] ch = "7" -> 7
      [] ch = "8" -> 8 [] ch = "9" -> 9
IsNat(str) == Len(str) > 0 /\ \A i \in 1..Len(str) : SubSeq(str, i, i) \in DigitChars
IsInt(str) ==
    IF StartsWith(str, "-") THEN IsNat(SubSeq(str, 2, Len(str))) ELSE IsNat(str)
RECURSIVE ParseNat(_)
ParseNat(str) ==
    IF Len(str) = 1 THEN DigitValue(str)
    ELSE 10 * ParseNat(SubSeq(str, 1, Len(str) - 1))
            + DigitValue(SubSeq(str, Len(str), Len(str)))
ParseInt(str) ==
    IF StartsWith(str, "-") THEN 0 - ParseNat(SubSeq(str, 2, Len(str)))
    ELSE ParseNat(str)

\* "<w>x<h>" read back as <<w, h>>; <<>> when it is not of that form
ParseSize(str) ==
    LET k == Find(str, "x")
        w == SubSeq(str, 1, k - 1)
        h == SubSeq(str, k + 1, Len(str))
    IN IF k > 0 /\ IsNat(w) /\ IsNat(h) THEN <<ParseNat(w), ParseNat(h)>> ELSE <<>>

\* ":0.0+<x>,<y>" read back as <<x, y>>
ParseDisplay(str) ==
    LET k == Find(str, ",")
        xs == SubSeq(str, 6, k - 1)
        ys == SubSeq(str, k + 1, Len(str))
    IN IF StartsWith(str, ":0.0+") /\ k > 0 /\ IsInt(xs) /\ IsInt(ys)
       THEN <<ParseInt(xs), ParseInt(ys)>> ELSE <<>>

RegionBackend == IF platform = "windows" THEN "gdigrab" ELSE "x11grab"
DeviceBackend == IF platform = "windows" THEN "dshow" ELSE "v4l2"
CameraSource == IF platform = "windows" THEN "video=" \o config.camera_device
                ELSE config.camera_device

\* the input at j of o captures the region <<x, y, w, h>>
RegionOf(o, j) ==
    LET xs == OptionOf(o, j, "-offset_x")
        ys == OptionOf(o, j, "-offset_y")
        sizes == OptionOf(o, j, "-video_size")
    IN IF platform = "windows"
       THEN IF xs # {} /\ ys # {} /\ \A v \in xs \cup ys : IsInt(v)
            THEN {<<ParseInt(ox), ParseInt(oy)>> \o ParseSize(sz) :
                      ox \in xs, oy \in ys, sz \in sizes}
            ELSE {}
       ELSE {ParseDisplay(o[j].value) \o ParseSize(sz) : sz \in sizes}

IsVideoInput(o, j) ==
    LET f == OptionOf(o, j, "-f")
    IN \/ f \cap {"gdigrab", "x11grab", "v4l2"} # {}
       \/ f = {"dshow"} /\ StartsWith(o[j].value, "video=")

Rectangles == [x : {-5, 0, 7}, y : {0, 9}, width : {1, 640}, height : {2, 480}]

\* C18: the program start spawns is the encoder executable the configuration
\* names (ffmpeg_path), for every value of that field.
C18_SpawnsConfiguredEncoder ==
    IsSome(cmd) => Unwrap(cmd).program = config.ffmpeg_path

\* C19: the first input of the rendered arguments is the region capture with
\* exactly the configured x, y, width and height in Screen and PiP mode, and
\* the device capture of the camera device in Camera mode, where the
\* arguments carry no offset option and are the same for every rectangle.
C19_PrimaryInput ==
    IsSome(cmd) =>
        LET o == Rendered
            j == NthInput(o, 0)
        IN /\ InputAt(o) # {}
           /\ IF config.mode \in {"Screen", "PiP"}
              THEN /\ OptionOf(o, j, "-f") = {RegionBackend}
                   /\ RegionOf(o, j) = {<<config.x, config.y, config.width, config.height>>}
              ELSE /\ OptionOf(o, j, "-f") = {DeviceBackend}
                   /\ o[j].value = CameraSource
                   /\ \A k \in DOMAIN o : o[k].flag \notin {"-offset_x", "-offset_y"}
                   /\ \A r \in Rectangles :
                         build_args([config EXCEPT !.x = r.x, !.y = r.y,
                                       !.width = r.width, !.height = r.height])
                            = Unwrap(cmd).args

C19_Witness ==
    /\ IsSome(cmd)
    /\ config.mode = "Screen"
    /\ config.x = 100 /\ config.y = 50
    /\ config.width = 1280 /\ config.height = 720
    /\ config.container_format = "mp4"
    /\ result = Ok

\* C20: in PiP mode the rendered arguments have exactly two video inputs,
\* input 0 the region capture and input 1 the camera device at 320x240, and
\* exactly one -filter_complex, which names [0:v] and [1:v] and comes after
\* every input; in Screen and Camera mode they have exactly one video input
\* and no -filter_complex.
C20_PipInputs ==
    IsSome(cmd) =>
        LET o == Rendered
            inputs == InputAt(o)
            video == {j \in inputs : IsVideoInput(o, j)}
            filters == {k \in DOMAIN o : o[k].flag = "-filter_complex"}
            first == NthInput(o, 0)
            second == NthInput(o, 1)
        IN IF config.mode = "PiP"
           THEN /\ Cardinality(video) = 2
                /\ video = {first, second}
                /\ OptionOf(o, first, "-f") = {RegionBackend}
                /\ OptionOf(o, second, "-f") = {DeviceBackend}
                /\ o[second].value = CameraSource
                /\ OptionOf(o, second, "-video_size") = {"320x240"}
                /\ Cardinality(filters) = 1
                /\ \A k \in filters :
                      /\ Contains(o[k].value, "[0:v]")
                      /\ Contains(o[k].value, "[1:v]")
                      /\ \A j \in inputs : j < k
           ELSE /\ Cardinality(video) = 1
                /\ filters = {}

C20_Witness ==
    /\ IsSome(cmd)
    /\ config.mode = "PiP"
    /\ config.audio_enabled
    /\ config.camera_device = "-i"
    /\ platform = "windows"
    /\ result = Ok

EncoderFlags == {"-c:v", "-b:v", "-preset", "-crf", "-pix_fmt"}

\* C21: the encoder options of the rendered arguments are those of VP9 with
\* bitrate 2M and no pixel-format option exactly when the container format
\* is "webm", and libx264 with preset ultrafast, crf 23 and pixel format
\* yuv420p for every other value, whatever the rest of the configuration.
C21_EncoderByContainer ==
    IsSome(cmd) =>
        LET o == Rendered
            enc == {<<o[k].flag, o[k].value>> :
                        k \in {k \in DOMAIN o : o[k].flag \in EncoderFlags}}
        IN IF config.container_format = "webm"
           THEN enc = {<<"-c:v", "libvpx-vp9">>, <<"-b:v", "2M">>}
           ELSE enc = {<<"-c:v", "libx264">>, <<"-preset", "ultrafast">>,
                       <<"-crf", "23">>, <<"-pix_fmt", "yuv420p">>}

C21_Witness ==
    /\ IsSome(cmd)
    /\ config.container_format = "WEBM"
    /\ config.mode = "PiP"
    /\ config.audio_enabled
    /\ result = Ok

\* C22 as stated: the rendered arguments end with -y followed by the output
\* path, and that -y is the only argument equal to -y.
C22_OverwriteOnlyOnce ==
    IsSome(cmd) =>
        LET a == Unwrap(cmd).args
            n == Len(a)
        IN /\ n >= 2
           /\ a[n - 1] = "-y"
           /\ a[n] = config.output_path
           /\ {i \in 1..n : a[i] = "-y"} = {n - 1}

\* C22 amended: the rendered arguments end with -y followed by the output
\* path; any other argument equal to -y is the output path itself or a device
\* name of the configuration standing as the value of -i.
C22_OverwriteLast ==
    IsSome(cmd) =>
        LET a == Unwrap(cmd).args
            n == Len(a)
        IN /\ n >= 2
           /\ a[n - 1] = "-y"
           /\ a[n] = config.output_path
           /\ \A i \in 1..(n - 2) :
                 a[i] = "-y" =>
                    /\ i > 1
                    /\ a[i - 1] = "-i"
                    /\ a[i] \in {config.camera_device, config.audio_device}

C22_Witness ==
    /\ IsSome(cmd)
    /\ config.audio_enabled
    /\ config.audio_device = "-y"
    /\ config.output_path = "-y"
    /\ platform = "unix"
    /\ result = Ok

\* C23: a stop() that ends with the forced kill of a child which has received
\* the graceful-stop request only ever kills a child that was running with
\* the request pending (one that is not cooperative); a cooperative child is
\* never killed, whether stop() was issued from Recording or from Paused.
C23_FinalizesFromEveryState ==
    [][ (pc = "waiting" /\ pc' = "ready" /\ wait_result' = "timeout"
            /\ procs[Unwrap(taken)].term)
          => procs[Unwrap(taken)].st = "running" ]_vars

\* C24: between calls, while the child held is alive, the controller is
\* Paused exactly when the child is suspended: is_paused() is true only after
\* the suspend signal was delivered, and a suspend or continue signal that
\* could not be delivered leaves the two in agreement.
C24_PausedMeansSuspended ==
    (pc = "ready" /\ IsSome(child) /\ Alive(Unwrap(child)))
        => (is_paused <=> procs[Unwrap(child)].st = "stopped")

\* C25: within one session, from one step to the next between calls (a
\* pause, a resume, a refused call, a clock advance, a step of the child),
\* the elapsed reading does not decrease; so a later reading of a session is
\* never below an earlier one.
C25_ElapsedMonotone ==
    [][ (pc = "ready" /\ pc' = "ready" /\ is_recording /\ child' = child)
          => get_duration' >= get_duration ]_vars

C25_Witness ==
    /\ pc = "ready"
    /\ is_recording
    /\ cycles >= 1
    /\ paused_duration >= PollInterval
    /\ get_duration >= PollInterval
    /\ lastOp = "start"
    /\ result = AlreadyActive

\* C26: a successful start() sets the accumulated paused duration to zero,
\* clears the pause timestamp and starts the session at elapsed zero; and at
\* any time between calls the elapsed of the session is the time since its
\* start less the time this session spent Paused, as on a fresh controller,
\* whatever earlier sessions left behind.
C26_SessionsIndependent ==
    /\ [][ (lastOp' = "start" /\ result' = Ok) =>
             /\ paused_duration' = 0
             /\ last_pause_time' = None
             /\ start_time' = Some(now')
             /\ get_duration' = 0 ]_vars
    /\ []((pc = "ready" /\ is_recording) =>
             get_duration = (now - Unwrap(start_time)) - paused_clock)

C26_Witness ==
    /\ pc = "ready"
    /\ child = Some(2)
    /\ wait_result = "timeout"
    /\ procs[1].term
    /\ start_time = Some(PollInterval)
    /\ now = 3 * PollInterval
    /\ get_duration = 2 * PollInterval

\* C27: every signal a step sends goes to the process whose handle is held
\* (the child between calls, the taken handle inside stop) and which has not
\* been waited on through that handle, so none is sent while Idle; the handle
\* leaves the record only in stop(), once per session; termination signals
\* are sent only by stop(); and inside a session SIGSTOP is sent only when
\* not Paused and SIGCONT only when Paused, each flipping that state, which
\* starts as not Paused.
C27_SignalsToHeldChild ==
    [][ LET new == IF pc = "waiting"
                   THEN SubSeq(sent', Len(sent) + 1, Len(sent'))
                   ELSE sent'
            held == IF pc = "waiting" THEN taken ELSE child
        IN /\ \A i \in DOMAIN new :
                 /\ IsSome(held)
                 /\ new[i].pid = Unwrap(held)
                 /\ procs[new[i].pid].st # "unborn"
                 /\ ~(procs[new[i].pid].st = "reaped" /\ ~procs[new[i].pid].lost)
                 /\ new[i].sig \in {"SIGTERM", "q", "SIGKILL"} => lastOp' = "stop"
                 /\ new[i].sig = "SIGSTOP" =>
                       lastOp' = "pause" /\ ~is_paused /\ is_paused'
                 /\ new[i].sig = "SIGCONT" =>
                       lastOp' = "resume" /\ is_paused /\ ~is_paused'
           /\ (IsSome(child) /\ child' # child) =>
                 /\ lastOp' = "stop" /\ pc = "ready"
                 /\ taken = None /\ taken' = child /\ child' = None
           /\ (taken' # taken) =>
                 \/ pc = "ready" /\ pc' = "waiting" /\ taken' = child
                 \/ pc = "waiting" /\ pc' = "ready" /\ taken' = None
           /\ (~IsSome(child) /\ IsSome(child')) => ~is_paused'
           /\ (IsSome(child) /\ child' = child /\ is_paused' # is_paused) =>
                 /\ Len(new) = 1
                 /\ new[1].sig = (IF is_paused THEN "SIGCONT" ELSE "SIGSTOP")
      ]_vars

C27_Witness ==
    /\ pc = "ready"
    /\ child = Some(2)
    /\ cycles >= 1
    /\ lastOp = "pause"
    /\ result = Ok
    /\ Len(sent) = 1
    /\ sent[1] = Signal("SIGSTOP", 2, TRUE)
    /\ procs[1].st = "reaped"

\* the child held has exited and has not been waited on
ChildGone(h) == IsSome(h) /\ procs[Unwrap(h)].st = "zombie"

\* C28: while the child held has exited on its own and stop() has not been
\* called, is_recording() stays true, the clock keeps adding to elapsed when
\* not Paused, start() fails with AlreadyActive, pause() and resume() answer
\* as for a live child; stop() then finds the exit at its first poll and
\* returns Ok without a forced kill, in Idle.
C28_ExitUnnoticed ==
    [][ /\ (pc = "ready" /\ ChildGone(child)) =>
              /\ is_recording
              /\ lastOp' # "stop" => (is_recording' /\ child' = child)
              /\ lastOp' = "start" => (result' = AlreadyActive /\ UNCHANGED recorder)
              /\ (lastOp' = "pause" /\ pause_supported) =>
                     IF is_paused THEN result' = AlreadyPaused
                     ELSE result' = Ok /\ is_paused'
              /\ (lastOp' = "resume" /\ pause_supported) =>
                     IF is_paused THEN result' = Ok /\ ~is_paused'
                     ELSE result' = NotPaused
              /\ (now' # now /\ ~is_paused) =>
                     get_duration' = get_duration + (now' - now)
              /\ lastOp' = "stop" => (pc' = "waiting" /\ taken' = child)
        /\ (pc = "waiting" /\ ChildGone(taken) /\ lastOp' = "stop") =>
              /\ pc' = "ready"
              /\ result' = Ok
              /\ wait_result' = "exited"
              /\ \A i \in DOMAIN sent' : sent'[i].sig # "SIGKILL"
              /\ ~is_recording' /\ ~is_paused'
              /\ get_duration' = 0
      ]_vars

C28_Witness ==
    /\ pc = "ready"
    /\ lastOp = "stop"
    /\ result = Ok
    /\ wait_result = "exited"
    /\ child = None
    /\ procs[1].st = "reaped"
    /\ ~procs[1].term
    /\ ~procs[1].lost
    /\ paused_duration >= PollInterval

====
